---- MODULE Spec2Model ----
(***************************************************************************)
(* Integer Van der Corput and Halton generators of lds-gen                 *)
(* (rust_ai/src/ilds.rs).                                                  *)
(*                                                                         *)
(* Every field of VdCorput is a Rust u32.  TLC's integers are 32-bit       *)
(* signed, so a u32 is held as a pair <<hi, lo>> of 16-bit limbs, value    *)
(* hi * 2^16 + lo.  The same pair with hi >= 2^16 holds the exact          *)
(* (unwrapped) result of an operation, which is how overflow is seen.      *)
(***************************************************************************)
EXTENDS Integers, Sequences, FiniteSets, TLC

\* ---------------------------------------------------------------- bounds
\* Bases 0..MaxBase are tried (0 and 1 are the degenerate ones).
MaxBase == 3
\* Scales 0..MaxScale are tried, besides the ones of EdgeScales.
MaxScale == 2
\* Seeds 0..MaxSeed are tried, besides the two largest u32 values.
MaxSeed == 9
\* At most MaxPops calls of pop follow a construction or a reseed.
MaxPops == 4

\* ------------------------------------------------------- u32 arithmetic
Limb == 65536

Wide(n) == <<n \div Limb, n % Limb>>

Zero == Wide(0)

One == Wide(1)

U32Max == <<Limb - 1, Limb - 1>>

\* x fits the u32 type.
IsU32(x) == x[1] < Limb

\* The value a u32 keeps when overflow is not checked: x mod 2^32.
Wrap(x) == <<x[1] % Limb, x[2]>>

\* Exact x + y of two u32.
WAdd(x, y) ==
    LET lo == x[2] + y[2]
    IN  <<x[1] + y[1] + (lo \div Limb), lo % Limb>>

\* Exact x * m of a u32 x and a small m (m < 2^15).
WMul(x, m) ==
    LET lo == x[2] * m
    IN  <<x[1] * m + (lo \div Limb), lo % Limb>>

\* x / d of a u32 x and a small d > 0 (Rust's truncating division).
WDiv(x, d) ==
    LET r == x[1] % d
    IN  <<x[1] \div d, (r * Limb + x[2]) \div d>>

\* x % d of a u32 x and a small d > 0, as a plain integer.
WRem(x, d) == ((x[1] % d) * Limb + x[2]) % d

WLess(x, y) == x[1] < y[1] \/ (x[1] = y[1] /\ x[2] < y[2])

WLeq(x, y) == x = y \/ WLess(x, y)

\* u32::pow(base, exp), from `left` multiplications to go and the
\* accumulator acc: the wrapped value, and whether the exact value left
\* the u32 range (a multiplication that panics when overflow checks are
\* on).  For base >= 1 a product overflows exactly when base^exp does.
RECURSIVE pow_loop(_, _, _, _)
pow_loop(base, left, acc, overflow) ==
    IF left = 0
    THEN [val |-> acc, overflow |-> overflow]
    ELSE LET m == WMul(acc, base)
         IN  IF IsU32(m)
             THEN pow_loop(base, left - 1, m, overflow)
             ELSE pow_loop(base, left - 1, Wrap(m), TRUE)

pow(base, exp) == pow_loop(base, exp, One, FALSE)

\* ------------------------------------------------------------ VdCorput
NoRet == <<>>

NoSeed == <<>>

\* No object yet: the fields of a generator that was not constructed.
Unbuilt == [base |-> 0, scale |-> 0, count |-> Zero, factor |-> Zero]

\* VdCorput::new with the factor taken one digit position too far.
VdCorput_new_extra_digit(base, scale, checks) ==
    LET factor == pow(base, scale + 1)
    IN  IF checks /\ factor.overflow
        THEN [st |-> "overflow_panic", self |-> Unbuilt]
        ELSE [st |-> "ready",
              self |-> [base |-> base, scale |-> scale,
                        count |-> Zero, factor |-> factor.val]]

\* VdCorput::new.  `checks` is the build's overflow-checks setting: with
\* it base.pow(scale) panics on overflow, without it the factor wraps.
VdCorput_new(base, scale, checks) ==
    LET factor == pow(base, scale)
    IN  IF checks /\ factor.overflow
        THEN [st |-> "overflow_panic", self |-> Unbuilt]
        ELSE [st |-> "ready",
              self |-> [base |-> base, scale |-> scale,
                        count |-> Zero, factor |-> factor.val]]

\* impl Default for VdCorput.
VdCorput_default(checks) == VdCorput_new(2, 10, checks)

\* The loop with the digit weighted before the factor is divided.
RECURSIVE pop_loop_late_divide(_, _, _, _, _)
pop_loop_late_divide(base, k, vdc, factor, checks) ==
    IF k = Zero
    THEN [st |-> "ready", ret |-> vdc]
    ELSE IF base = 0
    THEN [st |-> "div0_panic", ret |-> NoRet]
    ELSE LET remainder == WRem(k, base)
             k2 == WDiv(k, base)
             prod == WMul(factor, remainder)
             sum == WAdd(vdc, Wrap(prod))
             factor2 == WDiv(factor, base)
         IN  IF (~IsU32(prod) \/ ~IsU32(sum)) /\ checks
             THEN [st |-> "overflow_panic", ret |-> NoRet]
             ELSE IF <<k2, Wrap(sum), factor2>> = <<k, vdc, factor>>
             THEN [st |-> "hung", ret |-> NoRet]
             ELSE pop_loop_late_divide(base, k2, Wrap(sum), factor2, checks)

\* The loop with the digit taken after k is divided.
RECURSIVE pop_loop_digit_after_divide(_, _, _, _, _)
pop_loop_digit_after_divide(base, k, vdc, factor, checks) ==
    IF k = Zero
    THEN [st |-> "ready", ret |-> vdc]
    ELSE IF base = 0
    THEN [st |-> "div0_panic", ret |-> NoRet]
    ELSE LET factor2 == WDiv(factor, base)
             k2 == WDiv(k, base)
             remainder == WRem(k2, base)
             prod == WMul(factor2, remainder)
             sum == WAdd(vdc, Wrap(prod))
         IN  IF (~IsU32(prod) \/ ~IsU32(sum)) /\ checks
             THEN [st |-> "overflow_panic", ret |-> NoRet]
             ELSE IF <<k2, Wrap(sum), factor2>> = <<k, vdc, factor>>
             THEN [st |-> "hung", ret |-> NoRet]
             ELSE pop_loop_digit_after_divide(base, k2, Wrap(sum), factor2,
                                              checks)

\* The loop with a factor that is kept from falling to 0.
RECURSIVE pop_loop_factor_floor(_, _, _, _, _)
pop_loop_factor_floor(base, k, vdc, factor, checks) ==
    IF k = Zero
    THEN [st |-> "ready", ret |-> vdc]
    ELSE IF base = 0
    THEN [st |-> "div0_panic", ret |-> NoRet]
    ELSE LET divided == WDiv(factor, base)
             factor2 == IF divided = Zero THEN One ELSE divided
             remainder == WRem(k, base)
             k2 == WDiv(k, base)
             prod == WMul(factor2, remainder)
             sum == WAdd(vdc, Wrap(prod))
         IN  IF (~IsU32(prod) \/ ~IsU32(sum)) /\ checks
             THEN [st |-> "overflow_panic", ret |-> NoRet]
             ELSE IF <<k2, Wrap(sum), factor2>> = <<k, vdc, factor>>
             THEN [st |-> "hung", ret |-> NoRet]
             ELSE pop_loop_factor_floor(base, k2, Wrap(sum), factor2, checks)

\* The while loop of VdCorput::pop, from the loop state (k, vdc, factor).
\* An iteration with base = 0 divides by zero.  An iteration that leaves
\* the loop state as it found it (k # 0 still) repeats for ever: "hung".
RECURSIVE pop_loop(_, _, _, _, _)
pop_loop(base, k, vdc, factor, checks) ==
    IF k = Zero
    THEN [st |-> "ready", ret |-> vdc]
    ELSE IF base = 0
    THEN [st |-> "div0_panic", ret |-> NoRet]
    ELSE LET factor2 == WDiv(factor, base)
             remainder == WRem(k, base)
             k2 == WDiv(k, base)
             prod == WMul(factor2, remainder)
             sum == WAdd(vdc, Wrap(prod))
         IN  IF (~IsU32(prod) \/ ~IsU32(sum)) /\ checks
             THEN [st |-> "overflow_panic", ret |-> NoRet]
             ELSE IF <<k2, Wrap(sum), factor2>> = <<k, vdc, factor>>
             THEN [st |-> "hung", ret |-> NoRet]
             ELSE pop_loop(base, k2, Wrap(sum), factor2, checks)

\* VdCorput::pop: the new object, how the call ended and what it returned.
VdCorput_pop(self, checks) ==
    LET inc == WAdd(self.count, One)
    IN  IF checks /\ ~IsU32(inc)
        THEN [st |-> "overflow_panic", self |-> self, ret |-> NoRet]
        ELSE LET s2 == [self EXCEPT !.count = Wrap(inc)]
                 r == pop_loop(s2.base, s2.count, Zero, s2.factor, checks)
             IN  [st |-> r.st, self |-> s2, ret |-> r.ret]

\* reseed as an offset: the seed added to the cursor.
VdCorput_reseed_offset(self, seed) ==
    [self EXCEPT !.count = Wrap(WAdd(self.count, seed))]

\* VdCorput::reseed.
VdCorput_reseed(self, seed) == [self EXCEPT !.count = seed]

\* -------------------------------------------------------------- Halton
\* Halton::new: base and scale are the two-element arrays of the call
\* (base[1] is Rust's base[0]); vdc0 is constructed before vdc1.
Halton_new(base, scale, checks) ==
    LET a == VdCorput_new(base[1], scale[1], checks)
        b == VdCorput_new(base[2], scale[2], checks)
    IN  IF a.st # "ready"
        THEN [st |-> a.st, self |-> [vdc0 |-> Unbuilt, vdc1 |-> Unbuilt]]
        ELSE IF b.st # "ready"
        THEN [st |-> b.st, self |-> [vdc0 |-> Unbuilt, vdc1 |-> Unbuilt]]
        ELSE [st |-> "ready", self |-> [vdc0 |-> a.self, vdc1 |-> b.self]]

\* Halton::pop: [self.vdc0.pop(), self.vdc1.pop()], left to right; a call
\* of vdc0.pop() that does not return leaves vdc1 untouched.
Halton_pop(self, checks) ==
    LET a == VdCorput_pop(self.vdc0, checks)
        b == VdCorput_pop(self.vdc1, checks)
    IN  IF a.st # "ready"
        THEN [st |-> a.st, self |-> [self EXCEPT !.vdc0 = a.self],
              ret |-> NoRet]
        ELSE [st |-> b.st, self |-> [vdc0 |-> a.self, vdc1 |-> b.self],
              ret |-> IF b.st = "ready" THEN <<a.ret, b.ret>> ELSE NoRet]

\* Halton::reseed that reseeds the first dimension only.
Halton_reseed_first_only(self, seed) ==
    [vdc0 |-> VdCorput_reseed(self.vdc0, seed), vdc1 |-> self.vdc1]

\* Halton::reseed.
Halton_reseed(self, seed) ==
    [vdc0 |-> VdCorput_reseed(self.vdc0, seed),
     vdc1 |-> VdCorput_reseed(self.vdc1, seed)]

\* ------------------------------------------------------- state machine
\* overflow_checks: the build's setting (on in a debug build, off in a
\*                  release build), fixed for a run.
\* vdc0, vdc1:      the fields of two VdCorput objects (of Halton, its two
\*                  fields).
\* run0, run1:      what the caller saw of each object: how the last call
\*                  ended (st), which call it was (op), what it returned
\*                  (ret), the seed of the last reseed (seed) and the
\*                  number of pops since construction or reseed (pops).
\* halton:          the same record for a Halton object.
VARIABLES overflow_checks, vdc0, vdc1, run0, run1, halton

vars == <<overflow_checks, vdc0, vdc1, run0, run1, halton>>

Bases == 0 .. MaxBase

EdgeScales == {10, 21, 32}

Scales == (0 .. MaxScale) \cup EdgeScales

HaltonScales == ((0 .. MaxScale) \X (0 .. MaxScale)) \cup {<<11, 7>>}

Seeds == {Wide(n) : n \in 0 .. MaxSeed} \cup {<<Limb - 1, Limb - 2>>, U32Max}

\* The seeds of the two-generator runs: every count from 1 to 3 * MaxPops
\* is reached by pops after one of the small ones.
PairSeeds ==
    {Wide(n * MaxPops) : n \in 0 .. 2} \cup {<<Limb - 1, Limb - 2>>, U32Max}

Fresh == [st |-> "uninit", op |-> "none", ret |-> NoRet,
          seed |-> NoSeed, pops |-> 0]

Init ==
    /\ overflow_checks \in BOOLEAN
    /\ vdc0 = Unbuilt
    /\ vdc1 = Unbuilt
    /\ run0 = Fresh
    /\ run1 = Fresh
    /\ halton = Fresh

\* let mut vdc = VdCorput::new(base, scale);
New(base, scale) ==
    /\ run0.st = "uninit"
    /\ LET r == VdCorput_new(base, scale, overflow_checks)
       IN  /\ vdc0' = r.self
           /\ run0' = [run0 EXCEPT !.st = r.st, !.op = "new"]
    /\ UNCHANGED <<overflow_checks, vdc1, run1, halton>>

\* let mut vdc = VdCorput::default();
Default ==
    /\ run0.st = "uninit"
    /\ LET r == VdCorput_default(overflow_checks)
       IN  /\ vdc0' = r.self
           /\ run0' = [run0 EXCEPT !.st = r.st, !.op = "default"]
    /\ UNCHANGED <<overflow_checks, vdc1, run1, halton>>

\* vdc.pop();
Pop0 ==
    /\ run0.st = "ready"
    /\ run0.pops < MaxPops
    /\ LET r == VdCorput_pop(vdc0, overflow_checks)
       IN  /\ vdc0' = r.self
           /\ run0' = [run0 EXCEPT !.st = r.st, !.op = "pop",
                                   !.ret = r.ret, !.pops = @ + 1]
    /\ UNCHANGED <<overflow_checks, vdc1, run1, halton>>

\* vdc.reseed(seed);
Reseed0(seed) ==
    /\ run0.st = "ready"
    /\ vdc0' = VdCorput_reseed(vdc0, seed)
    /\ run0' = [run0 EXCEPT !.op = "reseed", !.ret = NoRet,
                            !.seed = seed, !.pops = 0]
    /\ UNCHANGED <<overflow_checks, vdc1, run1, halton>>

Next ==
    \/ \E base \in Bases, scale \in Scales : New(base, scale)
    \/ Default
    \/ Pop0
    \/ \E seed \in Seeds : Reseed0(seed)

Spec == Init /\ [][Next]_vars

\* Two generators constructed independently with the same base and scale.
NewPair(base, scale) ==
    /\ run0.st = "uninit"
    /\ LET a == VdCorput_new(base, scale, overflow_checks)
           b == VdCorput_new(base, scale, overflow_checks)
       IN  /\ vdc0' = a.self
           /\ run0' = [run0 EXCEPT !.st = a.st, !.op = "new"]
           /\ vdc1' = IF a.st = "ready" THEN b.self ELSE vdc1
           /\ run1' = IF a.st = "ready"
                      THEN [run1 EXCEPT !.st = b.st, !.op = "new"]
                      ELSE run1
    /\ UNCHANGED <<overflow_checks, halton>>

Pop1 ==
    /\ run1.st = "ready"
    /\ run0.st = "ready"
    /\ run1.pops < MaxPops
    /\ LET r == VdCorput_pop(vdc1, overflow_checks)
       IN  /\ vdc1' = r.self
           /\ run1' = [run1 EXCEPT !.st = r.st, !.op = "pop",
                                   !.ret = r.ret, !.pops = @ + 1]
    /\ UNCHANGED <<overflow_checks, vdc0, run0, halton>>

Reseed1(seed) ==
    /\ run1.st = "ready"
    /\ run0.st = "ready"
    /\ vdc1' = VdCorput_reseed(vdc1, seed)
    /\ run1' = [run1 EXCEPT !.op = "reseed", !.ret = NoRet,
                            !.seed = seed, !.pops = 0]
    /\ UNCHANGED <<overflow_checks, vdc0, run0, halton>>

\* The first generator's calls, while the second one is usable too (a call
\* that does not return ends the program for both).
PairPop0 == run1.st = "ready" /\ Pop0

PairReseed0(seed) == run1.st = "ready" /\ Reseed0(seed)

NextPair ==
    \/ \E base \in Bases, scale \in Scales : NewPair(base, scale)
    \/ PairPop0
    \/ Pop1
    \/ \E seed \in PairSeeds : PairReseed0(seed)
    \/ \E seed \in PairSeeds : Reseed1(seed)

SpecPair == Init /\ [][NextPair]_vars

\* let mut hgen = Halton::new(base, scale);
HaltonNew(base, scale) ==
    /\ halton.st = "uninit"
    /\ LET r == Halton_new(base, scale, overflow_checks)
       IN  /\ vdc0' = r.self.vdc0
           /\ vdc1' = r.self.vdc1
           /\ halton' = [halton EXCEPT !.st = r.st, !.op = "new"]
    /\ UNCHANGED <<overflow_checks, run0, run1>>

\* hgen.pop();
HaltonPop ==
    /\ halton.st = "ready"
    /\ halton.pops < MaxPops
    /\ LET r == Halton_pop([vdc0 |-> vdc0, vdc1 |-> vdc1], overflow_checks)
       IN  /\ vdc0' = r.self.vdc0
           /\ vdc1' = r.self.vdc1
           /\ halton' = [halton EXCEPT !.st = r.st, !.op = "pop",
                                       !.ret = r.ret, !.pops = @ + 1]
    /\ UNCHANGED <<overflow_checks, run0, run1>>

\* hgen.reseed(seed);
HaltonReseed(seed) ==
    /\ halton.st = "ready"
    /\ LET r == Halton_reseed([vdc0 |-> vdc0, vdc1 |-> vdc1], seed)
       IN  /\ vdc0' = r.vdc0
           /\ vdc1' = r.vdc1
    /\ halton' = [halton EXCEPT !.op = "reseed", !.ret = NoRet,
                                !.seed = seed, !.pops = 0]
    /\ UNCHANGED <<overflow_checks, run0, run1>>

NextHalton ==
    \/ \E base \in Bases \X Bases, scale \in HaltonScales :
           HaltonNew(base, scale)
    \/ HaltonPop
    \/ \E seed \in Seeds : HaltonReseed(seed)

SpecHalton == Init /\ [][NextHalton]_vars

\* ------------------------------------------------- what the claims use
\* base >= 2 and base^scale fits a u32.
ValidCfg(base, scale) == base >= 2 /\ ~pow(base, scale).overflow

\* The lowest `left` base-`base` digits d_0 d_1 ... of c, read as a number
\* with d_0 the most significant: with acc = 0 and left = scale this is
\* the sum of d_i * base^(scale-1-i), the integer part of
\* base^scale * (sum of d_i * base^-(i+1)).
RECURSIVE Reverse(_, _, _, _)
Reverse(base, left, c, acc) ==
    IF left = 0
    THEN acc
    ELSE IF c = Zero /\ acc = Zero
    THEN Zero
    ELSE Reverse(base, left - 1, WDiv(c, base),
                 WAdd(WMul(acc, base), Wide(WRem(c, base))))

\* floor(base^scale * radical_inverse_base(c)).
RadInv(base, scale, c) == Reverse(base, scale, c, Zero)

\* a and b agree on their lowest `left` base-`base` digits: they are
\* congruent modulo base^left.
RECURSIVE SameLowDigits(_, _, _, _)
SameLowDigits(base, left, a, b) ==
    \/ left = 0
    \/ /\ WRem(a, base) = WRem(b, base)
       /\ SameLowDigits(base, left - 1, WDiv(a, base), WDiv(b, base))

\* What a pop of generator `self` whose post-increment count is c yields.
ValueAt(self, c) ==
    pop_loop(self.base, c, Zero, self.factor, overflow_checks).ret

\* A VdCorput object exists: its construction returned.
Built(run) == run.st # "uninit" /\ ~(run.op \in {"new", "default"} /\ run.st # "ready")

\* This step is a call of pop on the first generator.
PopStep == run0'.op = "pop" /\ run0'.pops = run0.pops + 1

\* The values of the repository's test of pop (base 2, scale 10).
KnownValues == <<512, 256, 768, 128>>

\* C1 (as amended): for base >= 2, base^scale representable and a cursor
\* n < 2^32 - 1, pop sets count to n + 1, returns, and returns
\* floor(base^scale * radical_inverse_base(n + 1)); with base 2 and scale
\* 10 the counts 1, 2, 3, 4 give 512, 256, 768, 128.
C1_PopIsRadicalInverseBelowMax ==
    [][(PopStep /\ ValidCfg(vdc0.base, vdc0.scale) /\ vdc0.count # U32Max) =>
          /\ run0'.st = "ready"
          /\ vdc0'.count = WAdd(vdc0.count, One)
          /\ run0'.ret = RadInv(vdc0.base, vdc0.scale, vdc0'.count)
          /\ \A i \in 1 .. 4 :
                 (vdc0.base = 2 /\ vdc0.scale = 10 /\ vdc0'.count = Wide(i))
                     => run0'.ret = Wide(KnownValues[i])]_vars

\* C1 witness: the fourth pop after reseed(0) with base 2, scale 10
\* returned 128.
C1_Witness ==
    /\ run0.op = "pop" /\ run0.st = "ready"
    /\ vdc0.base = 2 /\ vdc0.scale = 10
    /\ run0.seed = Zero /\ run0.pops = 4
    /\ vdc0.count = Wide(4) /\ run0.ret = Wide(128)

\* C1 as stated: for every cursor value n, pop sets count to n + 1 and
\* returns floor(base^scale * radical_inverse_base(n + 1)).
C1_PopIsRadicalInverse ==
    [][(PopStep /\ ValidCfg(vdc0.base, vdc0.scale)) =>
          /\ run0'.st = "ready"
          /\ vdc0'.count = WAdd(vdc0.count, One)
          /\ run0'.ret = RadInv(vdc0.base, vdc0.scale,
                                WAdd(vdc0.count, One))]_vars

\* C2: for base >= 2, base^scale representable, a pop whose post-increment
\* count lies in [1, base^scale] returns a value v with 0 <= v < base^scale.
C2_RangeBound ==
    (/\ run0.op = "pop"
     /\ ValidCfg(vdc0.base, vdc0.scale)
     /\ WLeq(One, vdc0.count)
     /\ WLeq(vdc0.count, pow(vdc0.base, vdc0.scale).val))
    => /\ run0.st = "ready"
       /\ run0.ret[1] >= 0 /\ run0.ret[2] >= 0
       /\ WLess(run0.ret, pow(vdc0.base, vdc0.scale).val)

\* C2 witness: the pop at the endpoint count = base^scale = 9 returned 0.
C2_Witness ==
    /\ run0.op = "pop" /\ run0.st = "ready"
    /\ vdc0.base = 3 /\ vdc0.scale = 2
    /\ vdc0.count = Wide(9) /\ run0.ret = Zero

\* C4 (as amended): reseed(seed) in any state leaves count = seed, and
\* while seed + k <= 2^32 - 1 the k-th following pop leaves count =
\* seed + k and returns the generator's value for the count seed + k,
\* which for base >= 2 and base^scale representable is the radical-inverse
\* value of seed + k; the pop after reseed(0) and the first pop of a fresh
\* generator both return the value for count 1 (base 2, scale 10:
\* reseed(5), pop = 384; reseed(0), pop = 512).
C4_ReseedOverwrites ==
    /\ run0.op = "reseed" => vdc0.count = run0.seed
    /\ (run0.seed # NoSeed /\ IsU32(WAdd(run0.seed, Wide(run0.pops))))
       => /\ vdc0.count = WAdd(run0.seed, Wide(run0.pops))
          /\ run0.op = "pop"
             => run0.ret = ValueAt(vdc0, WAdd(run0.seed, Wide(run0.pops)))
          /\ (run0.op = "pop" /\ ValidCfg(vdc0.base, vdc0.scale))
             => /\ run0.st = "ready"
                /\ run0.ret = RadInv(vdc0.base, vdc0.scale,
                                     WAdd(run0.seed, Wide(run0.pops)))
    /\ (run0.op = "pop" /\ run0.pops = 1 /\ run0.seed \in {NoSeed, Zero})
       => /\ vdc0.count = One
          /\ run0.ret = ValueAt(vdc0, One)
          /\ ValidCfg(vdc0.base, vdc0.scale)
             => run0.ret = RadInv(vdc0.base, vdc0.scale, One)
    /\ (run0.op = "pop" /\ run0.pops = 1 /\ vdc0.base = 2 /\ vdc0.scale = 10)
       => /\ run0.seed = Wide(5) => run0.ret = Wide(384)
          /\ run0.seed = Zero => run0.ret = Wide(512)

\* C4 witness: reseed(5) followed by one pop, base 2 and scale 10,
\* returned 384 at count 6.
C4_Witness ==
    /\ run0.op = "pop" /\ run0.st = "ready"
    /\ vdc0.base = 2 /\ vdc0.scale = 10
    /\ run0.seed = Wide(5) /\ run0.pops = 1
    /\ vdc0.count = Wide(6) /\ run0.ret = Wide(384)

\* C4 as stated: after reseed(seed) the k-th following pop returns the
\* radical-inverse value of seed + k, for every seed and k.
C4_ReseedThenPopIsRadicalInverse ==
    (run0.seed # NoSeed /\ run0.op = "pop"
        /\ ValidCfg(vdc0.base, vdc0.scale))
    => /\ run0.st = "ready"
       /\ run0.ret = RadInv(vdc0.base, vdc0.scale,
                            WAdd(run0.seed, Wide(run0.pops)))

\* C7 as stated: no generator with base < 2 exists, and so no call of pop
\* divides by zero or loops for ever.
C7_InvalidBaseRejected ==
    /\ Built(run0) => vdc0.base >= 2
    /\ run0.st \notin {"div0_panic", "hung"}

\* C8 as stated: no generator exists whose base^scale left the u32 range
\* (whose factor is the wrapped value).
C8_OverflowRejected ==
    Built(run0) => ~pow(vdc0.base, vdc0.scale).overflow

\* C9 as stated: once constructed, base, scale and factor never change,
\* factor = base^scale in every state, and a pop adds exactly 1 to count.
C9_Frame ==
    [][/\ Built(run0) => /\ vdc0'.base = vdc0.base
                         /\ vdc0'.scale = vdc0.scale
                         /\ vdc0'.factor = vdc0.factor
       /\ Built(run0') => /\ ~pow(vdc0'.base, vdc0'.scale).overflow
                          /\ vdc0'.factor = pow(vdc0'.base, vdc0'.scale).val
       /\ PopStep => /\ vdc0'.count = WAdd(vdc0.count, One)
                     /\ WLess(vdc0.count, vdc0'.count)]_vars

\* Both generators of a two-generator run returned from a pop.
BothPopped ==
    /\ run0.op = "pop" /\ run0.st = "ready"
    /\ run1.op = "pop" /\ run1.st = "ready"

\* The count lies in [1, base^scale].
InFirstPeriod(self) ==
    /\ WLeq(One, self.count)
    /\ WLeq(self.count, pow(self.base, self.scale).val)

\* C3: for base >= 2 and base^scale representable, pops at two different
\* post-increment counts of [1, base^scale] return different values, both
\* in [0, base^scale).
C3_InjectiveOnFirstPeriod ==
    (/\ BothPopped
     /\ ValidCfg(vdc0.base, vdc0.scale)
     /\ InFirstPeriod(vdc0) /\ InFirstPeriod(vdc1)
     /\ vdc0.count # vdc1.count)
    => /\ run0.ret # run1.ret
       /\ WLess(run0.ret, pow(vdc0.base, vdc0.scale).val)
       /\ WLess(run1.ret, pow(vdc1.base, vdc1.scale).val)

\* C3 witness: base 3, scale 2: the pops at count 9 = base^scale and at
\* count 1 returned 0 and 3.
C3_Witness ==
    /\ BothPopped
    /\ vdc0.base = 3 /\ vdc0.scale = 2
    /\ vdc0.count = Wide(9) /\ run0.ret = Zero
    /\ vdc1.count = One /\ run1.ret = Wide(3)

\* C6: two generators with the same base and scale, each reseeded to the
\* same seed after a history of its own, agree from there on: after the
\* same number of pops they hold the same count, ended the same way and
\* returned the same value.
C6_Determinism ==
    (run0.seed # NoSeed /\ run1.seed = run0.seed /\ run1.pops = run0.pops)
    => /\ vdc0.count = vdc1.count
       /\ run0.st = run1.st
       /\ run0.ret = run1.ret

\* C6 witness: base 3, scale 2, both reseeded to 4 and popped twice: both
\* returned 2 at count 6.
C6_Witness ==
    /\ BothPopped
    /\ vdc0.base = 3 /\ vdc0.scale = 2
    /\ run0.seed = Wide(4) /\ run1.seed = Wide(4)
    /\ run0.pops = 2 /\ run1.pops = 2
    /\ run0.ret = Wide(2) /\ run1.ret = Wide(2)

\* C10: for base >= 2 and base^scale representable, a pop whose
\* post-increment count c is >= base^scale still ends (the loop is left),
\* returns 0 when c is a multiple of base^scale, and returns what a pop
\* at any count congruent to c modulo base^scale returns.
C10_CounterExhaustion ==
    (/\ run0.op = "pop"
     /\ ValidCfg(vdc0.base, vdc0.scale)
     /\ WLeq(pow(vdc0.base, vdc0.scale).val, vdc0.count))
    => /\ run0.st # "hung"
       /\ run0.st = "ready" \/ vdc0.count = U32Max
       /\ (run0.st = "ready"
             /\ SameLowDigits(vdc0.base, vdc0.scale, vdc0.count, Zero))
          => run0.ret = Zero
       /\ (BothPopped
             /\ SameLowDigits(vdc0.base, vdc0.scale, vdc0.count, vdc1.count))
          => run0.ret = run1.ret

\* C10 witness: base 3, scale 2: the pop at count 10 = base^scale + 1
\* returned 3, as the pop at count 1 did.
C10_Witness ==
    /\ BothPopped
    /\ vdc0.base = 3 /\ vdc0.scale = 2
    /\ vdc0.count = Wide(10) /\ run0.ret = Wide(3)
    /\ vdc1.count = One /\ run1.ret = Wide(3)

\* C5: after every call of Halton that returned, the two sub-generators
\* hold the same count, which is seed + (pops since the reseed) while that
\* fits a u32; a pop returns the pair of the two dimensions' values for
\* that one count (Halton::new([2,3],[11,7]), reseed(0): [1024, 729], then
\* [512, 1458]).
C5_HaltonLockStep ==
    halton.st = "ready" =>
        /\ vdc0.count = vdc1.count
        /\ (halton.seed # NoSeed
              /\ IsU32(WAdd(halton.seed, Wide(halton.pops))))
           => vdc0.count = WAdd(halton.seed, Wide(halton.pops))
        /\ halton.op = "pop" =>
              /\ halton.ret = <<ValueAt(vdc0, vdc0.count),
                                ValueAt(vdc1, vdc0.count)>>
              /\ ValidCfg(vdc0.base, vdc0.scale) =>
                   halton.ret[1] = RadInv(vdc0.base, vdc0.scale, vdc0.count)
              /\ ValidCfg(vdc1.base, vdc1.scale) =>
                   halton.ret[2] = RadInv(vdc1.base, vdc1.scale, vdc0.count)
              /\ (/\ <<vdc0.base, vdc1.base>> = <<2, 3>>
                  /\ <<vdc0.scale, vdc1.scale>> = <<11, 7>>
                  /\ halton.seed = Zero)
                 => /\ halton.pops = 1 =>
                          halton.ret = <<Wide(1024), Wide(729)>>
                    /\ halton.pops = 2 =>
                          halton.ret = <<Wide(512), Wide(1458)>>

\* C5 witness: Halton::new([2,3],[11,7]), reseed(0), and the second pop
\* returned [512, 1458] with both counts at 2.
C5_Witness ==
    /\ halton.op = "pop" /\ halton.st = "ready"
    /\ <<vdc0.base, vdc1.base>> = <<2, 3>>
    /\ <<vdc0.scale, vdc1.scale>> = <<11, 7>>
    /\ halton.seed = Zero /\ halton.pops = 2
    /\ vdc0.count = Wide(2) /\ vdc1.count = Wide(2)
    /\ halton.ret = <<Wide(512), Wide(1458)>>

====
